---------------------------- MODULE Spec2Model ----------------------------
(***************************************************************************)
(* Model of the social post approval board (src/app/page.tsx): the local   *)
(* date codec, the status severity, the board and calendar filters, the    *)
(* per-day aggregation of the calendar and the month grid.                 *)
(*                                                                         *)
(* Text is a sequence of one-character strings.  A number is a record      *)
(* [nan, n]; a Date is a record [valid, t] with t the minutes since        *)
(* 1970-01-01T00:00Z.  An optional value is <<>> (undefined / null) or     *)
(* <<v>>.                                                                  *)
(***************************************************************************)
EXTENDS Integers, Sequences, FiniteSets, TLC

VARIABLES
  items,          \* useLocalStorage "coem-social-approval-items": PostItem[]
  uids,           \* number of uid() calls made so far (ids are never reused)
  reads,          \* readFiles promises in flight, each with what its then-callback does
  query,          \* useState query
  statusFilter,   \* useState statusFilter
  platformFilter, \* useState platformFilter
  onlyScheduled,  \* useState onlyScheduled
  view,           \* useState view: "board" | "calendar"
  selectedDate,   \* useState selectedDate: optional day key
  cursor,         \* CalendarView useState cursor: optional Date (<<>> while unmounted)
  tz,             \* the host's time zone
  arg,            \* input of the function under test (dev sanity tests)
  ret             \* optional result of the function under test

appVars == <<items, uids, reads>>
filterVars == <<query, statusFilter, platformFilter, onlyScheduled>>
viewVars == <<view, selectedDate, cursor>>
testVars == <<arg, ret>>
vars == <<items, uids, reads, query, statusFilter, platformFilter, onlyScheduled,
          view, selectedDate, cursor, tz, arg, ret>>

\* ---------------------------------------------------------------- bounds
MaxUid == 2        \* uid() calls in one behaviour (posts ever created)
MaxReads == 1      \* readFiles promises in flight at once
NavSpan == 14      \* months the cursor is moved away from October 2025

\* ------------------------------------------------------- program constants
PLATFORMS == <<"Instagram", "Facebook", "X", "LinkedIn", "TikTok">>
STATUSES == <<"Bozza", "In revisione", "Approvato", "Da correggere">>
Platform == {PLATFORMS[i] : i \in 1..Len(PLATFORMS)}
Status == {STATUSES[i] : i \in 1..Len(STATUSES)}

\* ------------------------------------------------------------ optionals
Undefined == <<>>
Some(v) == <<v>>
IsSome(o) == o # <<>>
Get(o) == o[1]

\* ---------------------------------------------------------------- text
DigitChars == <<"0", "1", "2", "3", "4", "5", "6", "7", "8", "9">>
IsDigit(c) == \E i \in 1..10 : DigitChars[i] = c
DigitVal(c) == (CHOOSE i \in 1..10 : DigitChars[i] = c) - 1

UpperChars == <<"A","B","C","D","E","F","G","H","I","J","K","L","M","N","O","P","Q","R","S","T","U","V","W","X","Y","Z">>
LowerChars == <<"a","b","c","d","e","f","g","h","i","j","k","l","m","n","o","p","q","r","s","t","u","v","w","x","y","z">>

\* String.prototype.toLowerCase, character by character.
LowerChar(c) == IF \E i \in 1..26 : UpperChars[i] = c
                THEN LowerChars[CHOOSE i \in 1..26 : UpperChars[i] = c]
                ELSE c
toLowerCase(s) == [i \in 1..Len(s) |-> LowerChar(s[i])]

\* String.prototype.trim: drops leading and trailing white space.
RECURSIVE trimStart(_)
trimStart(s) == IF s # <<>> /\ Head(s) = " " THEN trimStart(Tail(s)) ELSE s
RECURSIVE trimEnd(_)
trimEnd(s) == IF s # <<>> /\ s[Len(s)] = " " THEN trimEnd(SubSeq(s, 1, Len(s) - 1)) ELSE s
trim(s) == trimEnd(trimStart(s))

\* String.prototype.includes: q occurs in hay as a contiguous substring.
includes(hay, q) ==
  \E i \in 0..(Len(hay) - Len(q)) : \A j \in 1..Len(q) : hay[i + j] = q[j]

\* Array.prototype.join over texts.
RECURSIVE join(_, _)
join(parts, sep) ==
  IF parts = <<>> THEN <<>>
  ELSE IF Len(parts) = 1 THEN parts[1]
  ELSE parts[1] \o sep \o join(Tail(parts), sep)

\* String.prototype.split on a one-character separator.
RECURSIVE SplitFrom(_, _, _, _)
SplitFrom(s, sep, i, cur) ==
  IF i > Len(s) THEN <<cur>>
  ELSE IF s[i] = sep THEN <<cur>> \o SplitFrom(s, sep, i + 1, <<>>)
  ELSE SplitFrom(s, sep, i + 1, Append(cur, s[i]))
split(s, sep) == SplitFrom(s, sep, 1, <<>>)

\* -------------------------------------------------------------- numbers
Num(n) == [nan |-> FALSE, n |-> n]
NaN == [nan |-> TRUE, n |-> 0]

\* x || k for a number x: k when x is NaN or 0.
OrElse(x, k) == IF x.nan \/ x.n = 0 THEN k ELSE x.n

RECURSIVE DigitsValue(_, _, _)
DigitsValue(s, i, acc) ==
  IF i > Len(s) \/ ~IsDigit(s[i]) THEN acc
  ELSE DigitsValue(s, i + 1, acc * 10 + DigitVal(s[i]))

\* parseInt(s, 10): leading white space, an optional sign, then the longest run
\* of decimal digits; NaN when there is no digit there.
parseInt(s) ==
  LET t == trimStart(s)
      neg == t # <<>> /\ Head(t) = "-"
      u == IF t # <<>> /\ Head(t) \in {"-", "+"} THEN Tail(t) ELSE t
  IN IF u = <<>> \/ ~IsDigit(Head(u)) THEN NaN
     ELSE Num(IF neg THEN 0 - DigitsValue(u, 1, 0) ELSE DigitsValue(u, 1, 0))

\* parts.map(n => parseInt(n, 10))[i]; a missing element reads as undefined,
\* which every use below treats as NaN.
PartInt(parts, i) == IF i <= Len(parts) THEN parseInt(parts[i]) ELSE NaN

RECURSIVE NatStr(_)
NatStr(n) == IF n < 10 THEN <<DigitChars[n + 1]>>
             ELSE NatStr(n \div 10) \o <<DigitChars[(n % 10) + 1]>>

\* String(n) for a number.
NumStr(x) == IF x.nan THEN <<"N", "a", "N">>
             ELSE IF x.n < 0 THEN <<"-">> \o NatStr(0 - x.n)
             ELSE NatStr(x.n)

\* String.prototype.padStart(width, "0").
RECURSIVE padStart(_, _)
padStart(s, width) == IF Len(s) >= width THEN s ELSE padStart(<<"0">> \o s, width)

\* ---------------------------------------------------------------- dates
MinutesPerDay == 1440

\* Days from 1970-01-01 of a day of the proleptic Gregorian calendar (m in 1..12).
DaysFromCivil(y, m, d) ==
  LET yy == IF m <= 2 THEN y - 1 ELSE y
      era == yy \div 400
      yoe == yy - era * 400
      doy == (153 * (IF m > 2 THEN m - 3 ELSE m + 9) + 2) \div 5 + d - 1
      doe == yoe * 365 + yoe \div 4 - yoe \div 100 + doy
  IN era * 146097 + doe - 719468

\* The year, month (1..12) and day of a day number.
CivilFromDays(z) ==
  LET zz == z + 719468
      era == zz \div 146097
      doe == zz - era * 146097
      yoe == (doe - doe \div 1460 + doe \div 36524 - doe \div 146096) \div 365
      doy == doe - (365 * yoe + yoe \div 4 - yoe \div 100)
      mp == (5 * doy + 2) \div 153
      m == IF mp < 10 THEN mp + 3 ELSE mp - 9
  IN [y |-> (yoe + era * 400) + (IF m <= 2 THEN 1 ELSE 0),
      m |-> m,
      d |-> doy - (153 * mp + 2) \div 5 + 1]

\* ECMAScript MakeDay: month0 counts from 0 and overflows into the year, date
\* overflows into the following (or preceding) days.
MakeDay(year, month0, date) ==
  DaysFromCivil(year + month0 \div 12, (month0 % 12) + 1, 1) + date - 1

\* The host's offset from UTC, in minutes, at the UTC time t.
OffsetAt(zone, t) ==
  IF zone.dstFrom <= t /\ t < zone.dstTo THEN zone.std + 60 ELSE zone.std

\* ECMAScript LocalTime and UTC: a local time the clock skips is read with the
\* offset before the transition, a repeated one as its first occurrence.
LocalTime(t) == t + OffsetAt(tz, t)
UTCTime(tl) ==
  LET summer == tl - (tz.std + 60)
  IN IF OffsetAt(tz, summer) = tz.std + 60 THEN summer ELSE tl - tz.std

InvalidDate == [valid |-> FALSE, t |-> 0]
DateOf(t) == [valid |-> TRUE, t |-> t]

\* new Date(y, month0, d, hh, mm, 0, 0): the fields are local; a year 0..99 means 1900 + year.
NewDate(y, month0, d, hh, mm) ==
  IF y.nan THEN InvalidDate
  ELSE LET yr == IF 0 <= y.n /\ y.n <= 99 THEN 1900 + y.n ELSE y.n
       IN DateOf(UTCTime(MakeDay(yr, month0, d) * MinutesPerDay + hh * 60 + mm))

LocalDay(d) == LocalTime(d.t) \div MinutesPerDay
LocalFields(d) == CivilFromDays(LocalDay(d))
getFullYear(d) == IF d.valid THEN Num(LocalFields(d).y) ELSE NaN
getMonth(d) == IF d.valid THEN Num(LocalFields(d).m - 1) ELSE NaN
getDate(d) == IF d.valid THEN Num(LocalFields(d).d) ELSE NaN
getDay(d) == IF d.valid THEN Num((LocalDay(d) + 4) % 7) ELSE NaN
MinuteOfDay(d) == LocalTime(d.t) % MinutesPerDay

\* Date.prototype.setDate, setMonth and setHours(0,0,0,0) on a copy of d.
setDate(d, date) ==
  IF ~d.valid THEN InvalidDate
  ELSE LET f == LocalFields(d)
       IN DateOf(UTCTime(MakeDay(f.y, f.m - 1, date) * MinutesPerDay + MinuteOfDay(d)))
setMonth(d, month0) ==
  IF ~d.valid THEN InvalidDate
  ELSE LET f == LocalFields(d)
       IN DateOf(UTCTime(MakeDay(f.y, month0, f.d) * MinutesPerDay + MinuteOfDay(d)))
setHoursZero(d) ==
  IF ~d.valid THEN InvalidDate
  ELSE DateOf(UTCTime(LocalDay(d) * MinutesPerDay))

\* ---- Local date helpers (avoid UTC shifts) ----
parseLocalDateTime(str) ==
  IF str = <<>> THEN InvalidDate
  ELSE LET parts == split(str, "T")
           ymd == split(parts[1], "-")
           hm == split(IF Len(parts) >= 2 THEN parts[2] ELSE <<"0", "0", ":", "0", "0">>, ":")
       IN NewDate(PartInt(ymd, 1),
                  OrElse(PartInt(ymd, 2), 1) - 1,
                  OrElse(PartInt(ymd, 3), 1),
                  OrElse(PartInt(hm, 1), 0),
                  OrElse(PartInt(hm, 2), 0))

dateKeyLocal(d) ==
  LET y == NumStr(getFullYear(d))
      m == padStart(NumStr(IF d.valid THEN Num(getMonth(d).n + 1) ELSE NaN), 2)
      day == padStart(NumStr(getDate(d)), 2)
  IN y \o <<"-">> \o m \o <<"-">> \o day

dateKeyFromLocalString(str) == dateKeyLocal(parseLocalDateTime(str))


\* ---- Status coloring (calendar platform chips) ----
SeverityFlatMutant(s) == IF s \in {"Approvato", "In revisione", "Da correggere"} THEN 1 ELSE 0

statusToSeverity(s) ==
  CASE s = "Approvato" -> 1
    [] s = "In revisione" -> 2
    [] s = "Da correggere" -> 3
    [] OTHER -> 0

severityBadgeClasses(sev) ==
  IF sev = 3 THEN "red"
  ELSE IF sev = 2 THEN "yellow"
  ELSE IF sev = 1 THEN "green"
  ELSE "gray"

\* ---------------------------------------------------------------- posts
\* The status label as text, as the search reads it.
StatusText(s) ==
  CASE s = "Bozza" -> <<"B","o","z","z","a">>
    [] s = "In revisione" -> <<"I","n"," ","r","e","v","i","s","i","o","n","e">>
    [] s = "Approvato" -> <<"A","p","p","r","o","v","a","t","o">>
    [] s = "Da correggere" -> <<"D","a"," ","c","o","r","r","e","g","g","e","r","e">>
    [] s = "Archiviato" -> <<"A","r","c","h","i","v","i","a","t","o">>

\* The post addFromFiles makes of one file read: a draft, enabled on every
\* platform, with empty captions, no tags and no schedule.
NewPost(id, url, name) ==
  [id |-> id, imageUrl |-> url, imageName |-> name, owner |-> <<>>, notes |-> <<>>,
   platforms |-> [p \in Platform |-> [enabled |-> TRUE, caption |-> <<>>]],
   scheduledAt |-> Undefined, status |-> "Bozza", tags |-> <<>>]

UnscheduledOnlyUndefinedMutant(it) == it.scheduledAt = Undefined

\* !it.scheduledAt: undefined or the empty text.
Unscheduled(it) == it.scheduledAt = Undefined \/ Get(it.scheduledAt) = <<>>

\* The text the search looks into.
Haystack(it) ==
  toLowerCase(join(<<it.imageName, it.owner, it.notes>>
                   \o [i \in 1..Len(PLATFORMS) |-> it.platforms[PLATFORMS[i]].caption]
                   \o <<join(it.tags, <<" ">>), StatusText(it.status)>>,
                   <<" ">>))

\* ---------------------------------------------------------------- filters
BoardPassNoDayMutant(it) ==
  /\ ~(statusFilter # "Tutti" /\ it.status # statusFilter)
  /\ ~(platformFilter # "Tutte" /\ ~it.platforms[platformFilter].enabled)
  /\ ~(onlyScheduled /\ Unscheduled(it))
  /\ LET q == toLowerCase(trim(query))
     IN q = <<>> \/ includes(Haystack(it), q)

\* The predicate of `filtered` (the board).
BoardPass(it) ==
  /\ ~(statusFilter # "Tutti" /\ it.status # statusFilter)
  /\ ~(platformFilter # "Tutte" /\ ~it.platforms[platformFilter].enabled)
  /\ ~(onlyScheduled /\ Unscheduled(it))
  /\ ~(IsSome(selectedDate)
       /\ (Unscheduled(it) \/ dateKeyFromLocalString(Get(it.scheduledAt)) # Get(selectedDate)))
  /\ LET q == toLowerCase(trim(query))
     IN q = <<>> \/ includes(Haystack(it), q)

CalendarPassWithDayMutant(it) ==
  /\ (statusFilter = "Tutti" \/ it.status = statusFilter)
  /\ (platformFilter = "Tutte" \/ it.platforms[platformFilter].enabled)
  /\ (~onlyScheduled \/ ~Unscheduled(it))
  /\ (selectedDate = Undefined
       \/ (~Unscheduled(it) /\ dateKeyFromLocalString(Get(it.scheduledAt)) = Get(selectedDate)))
  /\ (IF query # <<>> THEN includes(Haystack(it), toLowerCase(query)) ELSE TRUE)

\* The predicate of `calendarItems` (the calendar).
CalendarPass(it) ==
  /\ (statusFilter = "Tutti" \/ it.status = statusFilter)
  /\ (platformFilter = "Tutte" \/ it.platforms[platformFilter].enabled)
  /\ (~onlyScheduled \/ ~Unscheduled(it))
  /\ (IF query # <<>> THEN includes(Haystack(it), toLowerCase(query)) ELSE TRUE)

filtered == SelectSeq(items, BoardPass)
calendarItems == SelectSeq(items, CalendarPass)

\* ------------------------------------------------------------ aggregator
MaxLastMutant(a, b) == b

\* Math.max of two numbers.
Max(a, b) == IF a >= b THEN a ELSE b

\* bucket.platformSeverity[p] ?? 0
SeverityOr0(ps, p) == IF p \in DOMAIN ps THEN ps[p] ELSE 0

\* The inner loop of postsByDay over PLATFORMS, from platform number i on.
RECURSIVE SeverityLoop(_, _, _)
SeverityLoop(ps, it, i) ==
  IF i > Len(PLATFORMS) THEN ps
  ELSE LET p == PLATFORMS[i]
       IN IF ~it.platforms[p].enabled THEN SeverityLoop(ps, it, i + 1)
          ELSE LET sev == statusToSeverity(it.status)
                   top == Max(SeverityOr0(ps, p), sev)
               IN SeverityLoop([q \in DOMAIN ps \cup {p} |-> IF q = p THEN top ELSE ps[q]],
                               it, i + 1)

BucketStepNoSkipMutant(map, it) ==
  LET dayKey == IF Unscheduled(it) THEN dateKeyLocal(InvalidDate)
                ELSE dateKeyFromLocalString(Get(it.scheduledAt))
      old == IF dayKey \in DOMAIN map THEN map[dayKey]
             ELSE [items |-> <<>>, platformSeverity |-> <<>>]
      new == [items |-> Append(old.items, it),
              platformSeverity |-> SeverityLoop(old.platformSeverity, it, 1)]
  IN [k \in DOMAIN map \cup {dayKey} |-> IF k = dayKey THEN new ELSE map[k]]

BucketStepFreshBucketMutant(map, it) ==
  IF Unscheduled(it) THEN map
  ELSE LET dayKey == dateKeyFromLocalString(Get(it.scheduledAt))
           new == [items |-> <<it>>, platformSeverity |-> SeverityLoop(<<>>, it, 1)]
       IN [k \in DOMAIN map \cup {dayKey} |-> IF k = dayKey THEN new ELSE map[k]]

\* One turn of the outer loop of postsByDay.
BucketStep(map, it) ==
  IF Unscheduled(it) THEN map
  ELSE LET dayKey == dateKeyFromLocalString(Get(it.scheduledAt))
           old == IF dayKey \in DOMAIN map THEN map[dayKey]
                  ELSE [items |-> <<>>, platformSeverity |-> <<>>]
           new == [items |-> Append(old.items, it),
                   platformSeverity |-> SeverityLoop(old.platformSeverity, it, 1)]
       IN [k \in DOMAIN map \cup {dayKey} |-> IF k = dayKey THEN new ELSE map[k]]

RECURSIVE BucketLoop(_, _, _)
BucketLoop(map, its, i) ==
  IF i > Len(its) THEN map ELSE BucketLoop(BucketStep(map, its[i]), its, i + 1)

\* CalendarView.postsByDay of the items it is given.
PostsByDay(its) == BucketLoop(<<>>, its, 1)
postsByDay == PostsByDay(calendarItems)

\* What a calendar cell shows for a day key: the count badge and the severities.
CellCount(map, dayKey) == IF dayKey \in DOMAIN map THEN Len(map[dayKey].items) ELSE 0
CellSeverity(map, dayKey, p) ==
  IF dayKey \in DOMAIN map THEN SeverityOr0(map[dayKey].platformSeverity, p) ELSE 0

\* A record read from JSON may lack a platform entry: it.platforms[p] is then
\* undefined, and reading .enabled of it is a TypeError.
HasEntry(it, p) == p \in DOMAIN it.platforms

\* The turn of postsByDay's outer loop for `it` throws: the post is not skipped
\* and the inner loop reaches a platform without entry.
BucketStepThrows(it) ==
  ~Unscheduled(it) /\ \E i \in 1..Len(PLATFORMS) : ~HasEntry(it, PLATFORMS[i])
PostsByDayThrows(its) == \E i \in 1..Len(its) : BucketStepThrows(its[i])

\* PostCard evaluates item.platforms[p].enabled for every platform tab.
PostCardThrows(it) == \E i \in 1..Len(PLATFORMS) : ~HasEntry(it, PLATFORMS[i])

\* The page is on screen: the last render threw nothing.  An exception in a
\* render unmounts the whole page, and no control is left to act on.
Rendered ==
  IF \A i \in 1..Len(items) : ~PostCardThrows(items[i]) THEN TRUE
  ELSE IF view = "board" THEN \A i \in 1..Len(filtered) : ~PostCardThrows(filtered[i])
  ELSE ~PostsByDayThrows(calendarItems)

\* ------------------------------------------------------------------ grid
GridCells == 42
WeekLength == 7

StartOfWeekSundayMutant(d) == setHoursZero(setDate(d, getDate(d).n - getDay(d).n))

startOfWeek(d) ==
  LET day == (getDay(d).n + 6) % 7
  IN setHoursZero(setDate(d, getDate(d).n - day))

AddMonthsNoCarryMutant(d, delta) ==
  NewDate(getFullYear(d), (getMonth(d).n + delta) % 12, 1, 0, 0)

addMonths(d, delta) ==
  LET out == setMonth(d, getMonth(d).n + delta)
  IN NewDate(getFullYear(out), getMonth(out).n, 1, 0, 0)

RECURSIVE chunk(_, _)
chunk(arr, size) ==
  IF arr = <<>> THEN <<>>
  ELSE IF Len(arr) <= size THEN <<arr>>
  ELSE <<SubSeq(arr, 1, size)>> \o chunk(SubSeq(arr, size + 1, Len(arr)), size)

\* The 42 days of CalendarView.weeks, before they are chunked.
GridDays(cur) ==
  LET first == NewDate(getFullYear(cur), getMonth(cur).n, 1, 0, 0)
      start == startOfWeek(first)
  IN [i \in 1..GridCells |-> setDate(start, getDate(start).n + (i - 1))]

Weeks(cur) == chunk(GridDays(cur), WeekLength)

\* weeks.flat(), as the cells are rendered.
RECURSIVE flat(_)
flat(rows) == IF rows = <<>> THEN <<>> ELSE Head(rows) \o flat(Tail(rows))

\* new Date(d.getFullYear(), d.getMonth(), 1) of the current time d.
FirstOfMonth(d) == NewDate(getFullYear(d), getMonth(d).n, 1, 0, 0)


\* ---------------------------------------------------------- environment
UtcMinutes(y, m, d, hh, mm) == DaysFromCivil(y, m, d) * MinutesPerDay + hh * 60 + mm

\* Host time zones: a fixed offset, or one with a summer-time span.  Rome skips
\* 02:00-03:00 on 2025-03-30; Santiago skips 00:00-01:00 on 2025-09-07.
ZoneUTC == [name |-> "UTC", std |-> 0, dstFrom |-> 0, dstTo |-> 0]
ZoneRome == [name |-> "Europe/Rome", std |-> 60,
             dstFrom |-> UtcMinutes(2025, 3, 30, 1, 0), dstTo |-> UtcMinutes(2025, 10, 26, 1, 0)]
ZoneSantiago == [name |-> "America/Santiago", std |-> -240,
                 dstFrom |-> UtcMinutes(2025, 9, 7, 4, 0), dstTo |-> UtcMinutes(2026, 4, 5, 3, 0)]
ZoneHonolulu == [name |-> "Pacific/Honolulu", std |-> -600, dstFrom |-> 0, dstTo |-> 0]
ZoneKiritimati == [name |-> "Pacific/Kiritimati", std |-> 840, dstFrom |-> 0, dstTo |-> 0]
TimeZones == {ZoneUTC, ZoneRome, ZoneSantiago, ZoneHonolulu, ZoneKiritimati}

\* The instants new Date() returns.
NowInstants == {UtcMinutes(2025, 10, 29, 12, 0), UtcMinutes(2025, 10, 31, 11, 0)}

\* The value of an <input type="datetime-local">: YYYY-MM-DDThh:mm.
LocalString(y, m, d, hh, mm) ==
  padStart(NatStr(y), 4) \o <<"-">> \o padStart(NatStr(m), 2) \o <<"-">> \o padStart(NatStr(d), 2)
    \o <<"T">> \o padStart(NatStr(hh), 2) \o <<":">> \o padStart(NatStr(mm), 2)

\* ------------------------------------------------------------- inputs
\* A file the user picks: its name and its content.
FileName == <<"a">>
File(name, data) == [name |-> name, data |-> data]
PickedFile == File(FileName, <<"1">>)
UploadBatches == {<<PickedFile>>, <<PickedFile, PickedFile>>}
ReplacementFiles == {File(<<"z">>, <<"2">>)}
ButtonStatuses == {"In revisione", "Da correggere", "Approvato"}
EditedPlatforms == {"Instagram", "Facebook"}
ScheduleInputs == {<<>>,
                   LocalString(2025, 10, 29, 9, 0),
                   LocalString(2025, 10, 29, 18, 0),
                   LocalString(2025, 10, 30, 0, 30)}
Queries == {<<>>, <<"a">>, <<" ", "a">>, <<"B">>, <<"K">>}
PickCells == {1, 31, 32}
PresetTags == {<<"s", "t", "o", "r", "y">>}

\* Records of an imported JSON file: a well-formed post, one whose schedule is
\* no date, one whose status is no status of the board, one without the entry of
\* platform X, one with an entry of a platform the board does not know, and one
\* whose schedule is the empty text.
AllPlatforms == [p \in Platform |-> [enabled |-> TRUE, caption |-> <<>>]]
ImportedPost(id, s, sch, plats) ==
  [id |-> id, imageUrl |-> Undefined, imageName |-> <<"i">>, owner |-> <<>>, notes |-> <<>>,
   platforms |-> plats, scheduledAt |-> sch, status |-> s, tags |-> <<>>]
ImportedPosts ==
  {ImportedPost(101, "Approvato", Some(LocalString(2025, 10, 29, 9, 0)), AllPlatforms),
   ImportedPost(102, "In revisione", Some(<<"x">>), AllPlatforms),
   ImportedPost(103, "Archiviato", Some(LocalString(2025, 10, 29, 18, 0)), AllPlatforms),
   ImportedPost(104, "Da correggere", Some(LocalString(2025, 10, 30, 0, 30)),
                [p \in Platform \ {"X"} |-> AllPlatforms[p]]),
   ImportedPost(105, "In revisione", Some(LocalString(2025, 10, 30, 0, 30)),
                [p \in Platform \cup {"Threads"} |-> [enabled |-> TRUE, caption |-> <<>>]]),
   ImportedPost(106, "Da correggere", Some(<<>>), AllPlatforms)}
ImportedCollections ==
  {<<>>} \cup {<<a>> : a \in ImportedPosts}
         \cup {<<ab[1], ab[2]>> : ab \in {x \in ImportedPosts \X ImportedPosts : x[1] # x[2]}}
ImportedData ==
  {[kind |-> "array", rows |-> c] : c \in ImportedCollections}
    \cup {[kind |-> "object", rows |-> <<>>], [kind |-> "invalid", rows |-> <<>>]}

CodecYears == {99, 999, 2024, 2025}
CodecDays == {<<1, 1>>, <<3, 1>>, <<3, 30>>, <<9, 7>>, <<10, 26>>, <<10, 31>>, <<12, 31>>}
CodecTimes == {<<0, 0>>, <<0, 30>>, <<2, 30>>, <<12, 0>>, <<23, 59>>}
CodecStrings ==
  {LocalString(y, md[1], md[2], t[1], t[2]) : y \in CodecYears, md \in CodecDays, t \in CodecTimes}

\* --------------------------------------------------------------- actions
IdsOf(its) == {its[i].id : i \in 1..Len(its)}
Shown(id) == view = "board" /\ id \in IdsOf(filtered)

\* FileReader.readAsDataURL: the URL carries the content of the file.
DataUrl(data) == <<"d", "a", "t", "a", ":">> \o data
\* What readFiles resolves to: one { url, name } per file, in the order of the files.
readFiles(files) == [k \in 1..Len(files) |-> [url |-> DataUrl(files[k].data), name |-> files[k].name]]

\* A readFiles promise in flight: the files, and what its then-callback does
\* ("add": addFromFiles; "replace": the image input of the card of post id).
Read(then, id, files) == [then |-> then, id |-> id, files |-> files]
RECURSIVE FilesOfUploads(_)
FilesOfUploads(rs) ==
  IF rs = <<>> THEN 0
  ELSE (IF Head(rs).then = "add" THEN Len(Head(rs).files) ELSE 0) + FilesOfUploads(Tail(rs))
InFlight == FilesOfUploads(reads)
WithoutRead(i) == SubSeq(reads, 1, i - 1) \o SubSeq(reads, i + 1, Len(reads))

\* addFromFiles: starts reading the files; the posts are made when the read resolves.
AddFromFiles(files) ==
  /\ Len(reads) < MaxReads
  /\ uids + InFlight + Len(files) <= MaxUid
  /\ reads' = Append(reads, Read("add", 0, files))
  /\ UNCHANGED <<items, uids, filterVars, viewVars, tz, testVars>>

\* The then-callback of addFromFiles: the new drafts go before the current posts.
ResolveUpload(i) ==
  /\ i \in 1..Len(reads)
  /\ reads[i].then = "add"
  /\ LET rows == readFiles(reads[i].files)
     IN /\ items' = [k \in 1..Len(rows) |-> NewPost(uids + k, Some(rows[k].url), rows[k].name)]
                       \o items
        /\ uids' = uids + Len(rows)
  /\ reads' = WithoutRead(i)
  /\ UNCHANGED <<filterVars, viewVars, tz, testVars>>

\* updateItem(id, patch): { ...it, ...patch } for the post with that id, over
\* the collection as it is when the update is applied.
PatchedResetsOthersMutant(it, patch) ==
  [f \in DOMAIN it \cup DOMAIN patch |->
     IF f \in DOMAIN patch THEN patch[f] ELSE NewPost(it.id, it.imageUrl, it.imageName)[f]]
Patched(it, patch) ==
  [f \in DOMAIN it \cup DOMAIN patch |-> IF f \in DOMAIN patch THEN patch[f] ELSE it[f]]
PatchedItemsUpsertMutant(prev, id, patch) ==
  IF \E i \in 1..Len(prev) : prev[i].id = id
  THEN [i \in 1..Len(prev) |-> IF prev[i].id = id THEN Patched(prev[i], patch) ELSE prev[i]]
  ELSE Append(prev, Patched(NewPost(id, Undefined, <<>>), patch))
PatchedItems(prev, id, patch) ==
  [i \in 1..Len(prev) |-> IF prev[i].id = id THEN Patched(prev[i], patch) ELSE prev[i]]
updateItem(id, patch) ==
  /\ items' = PatchedItems(items, id, patch)
  /\ UNCHANGED <<uids, reads, filterVars, viewVars, tz, testVars>>

ItemOf(id) == items[CHOOSE i \in 1..Len(items) : items[i].id = id]

\* The three status buttons of a card.
SetStatus(id, s) ==
  /\ Shown(id)
  /\ updateItem(id, [status |-> s])

\* The datetime-local input of a card.
SetSchedule(id, str) ==
  /\ Shown(id)
  /\ updateItem(id, [scheduledAt |-> Some(str)])

\* The "Attiva" checkbox of a platform tab: setPlatform(p, { enabled }).
SetEnabled(id, p, v) ==
  /\ Shown(id)
  /\ LET it == ItemOf(id)
     IN updateItem(id, [platforms |->
          [it.platforms EXCEPT ![p] = [enabled |-> v, caption |-> it.platforms[p].caption]]])

\* A preset tag chip of a card: toggleTag(tag).
ToggleTag(id, tag) ==
  /\ Shown(id)
  /\ LET it == ItemOf(id)
         has == \E i \in 1..Len(it.tags) : it.tags[i] = tag
     IN updateItem(id, [tags |-> IF has THEN SelectSeq(it.tags, LAMBDA t : t # tag)
                                ELSE Append(it.tags, tag)])

\* The image input of a card ("Sostituisci"): starts reading the chosen file.
ReplaceImage(id, f) ==
  /\ Shown(id)
  /\ Len(reads) < MaxReads
  /\ reads' = Append(reads, Read("replace", id, <<f>>))
  /\ UNCHANGED <<items, uids, filterVars, viewVars, tz, testVars>>

\* Its then-callback: onChange(item.id, { imageUrl: r.url, imageName: f.name }).
ResolveReplace(i) ==
  /\ i \in 1..Len(reads)
  /\ reads[i].then = "replace"
  /\ LET r == readFiles(reads[i].files)[1]
     IN items' = PatchedItems(items, reads[i].id,
                              [imageUrl |-> Some(r.url), imageName |-> reads[i].files[1].name])
  /\ reads' = WithoutRead(i)
  /\ UNCHANGED <<uids, filterVars, viewVars, tz, testVars>>

removeItem(id) ==
  /\ Shown(id)
  /\ items' = SelectSeq(items, LAMBDA it : it.id # id)
  /\ UNCHANGED <<uids, reads, filterVars, viewVars, tz, testVars>>

\* importJSON: the parsed file replaces the collection when it is an array;
\* anything else, or a file that is not JSON, is refused with an alert.
importJSON(data) ==
  /\ Rendered
  /\ items' = IF data.kind = "array" THEN data.rows ELSE items
  /\ UNCHANGED <<uids, reads, filterVars, viewVars, tz, testVars>>

\* The filters bar.
SetQuery(q) ==
  /\ query' = q
  /\ UNCHANGED <<appVars, statusFilter, platformFilter, onlyScheduled, viewVars, tz, testVars>>
SetStatusFilter(s) ==
  /\ statusFilter' = s
  /\ UNCHANGED <<appVars, query, platformFilter, onlyScheduled, viewVars, tz, testVars>>
SetPlatformFilter(p) ==
  /\ platformFilter' = p
  /\ UNCHANGED <<appVars, query, statusFilter, onlyScheduled, viewVars, tz, testVars>>
SetOnlyScheduled(v) ==
  /\ Rendered
  /\ onlyScheduled' = v
  /\ UNCHANGED <<appVars, query, statusFilter, platformFilter, viewVars, tz, testVars>>

\* The Bacheca and Calendario buttons.  CalendarView is mounted only in the
\* calendar view, and its cursor starts at the first of the current month.
ShowBoard ==
  /\ Rendered
  /\ view' = "board"
  /\ cursor' = Undefined
  /\ UNCHANGED <<appVars, filterVars, selectedDate, tz, testVars>>
ShowCalendarClearsDayMutant ==
  /\ Rendered
  /\ view' = "calendar"
  /\ selectedDate' = Undefined
  /\ IF view = "calendar" THEN cursor' = cursor
     ELSE \E now \in NowInstants : cursor' = Some(FirstOfMonth(DateOf(now)))
  /\ UNCHANGED <<appVars, filterVars, tz, testVars>>

ShowCalendar ==
  /\ Rendered
  /\ view' = "calendar"
  /\ IF view = "calendar" THEN cursor' = cursor
     ELSE \E now \in NowInstants : cursor' = Some(FirstOfMonth(DateOf(now)))
  /\ UNCHANGED <<appVars, filterVars, selectedDate, tz, testVars>>

\* A day cell of the calendar: onPickDate(dayKey).  The cells are weeks.flat(),
\* the days of the grid in their order.
PickDate(cell) ==
  /\ view = "calendar"
  /\ Rendered
  /\ selectedDate' = Some(dateKeyLocal(GridDays(Get(cursor))[cell]))
  /\ view' = "board"
  /\ cursor' = Undefined
  /\ UNCHANGED <<appVars, filterVars, tz, testVars>>

\* The "Rimuovi filtro data" button of the selected-day chip.
ClearSelectedDate ==
  /\ Rendered
  /\ IsSome(selectedDate)
  /\ selectedDate' = Undefined
  /\ UNCHANGED <<appVars, filterVars, view, cursor, tz, testVars>>

\* Month navigation of the calendar.
MonthIndex(d) == getFullYear(d).n * 12 + getMonth(d).n
InNavSpan(d) == MonthIndex(d) - (2025 * 12 + 9) \in (0 - NavSpan)..NavSpan
PrevMonth ==
  /\ view = "calendar"
  /\ InNavSpan(addMonths(Get(cursor), -1))
  /\ cursor' = Some(addMonths(Get(cursor), -1))
  /\ UNCHANGED <<appVars, filterVars, view, selectedDate, tz, testVars>>
NextMonth ==
  /\ view = "calendar"
  /\ InNavSpan(addMonths(Get(cursor), 1))
  /\ cursor' = Some(addMonths(Get(cursor), 1))
  /\ UNCHANGED <<appVars, filterVars, view, selectedDate, tz, testVars>>
Today ==
  /\ view = "calendar"
  /\ \E now \in NowInstants : cursor' = Some(FirstOfMonth(DateOf(now)))
  /\ UNCHANGED <<appVars, filterVars, view, selectedDate, tz, testVars>>

\* Dev sanity tests: the function under test applied to its input.
DevDateKey ==
  /\ ret = Undefined
  /\ ret' = Some(dateKeyFromLocalString(arg))
  /\ UNCHANGED <<appVars, filterVars, viewVars, tz, arg>>
DevStartOfWeek ==
  /\ ret = Undefined
  /\ ret' = Some(startOfWeek(arg))
  /\ UNCHANGED <<appVars, filterVars, viewVars, tz, arg>>

\* ---------------------------------------------------------- specifications
InitApp ==
  /\ items = <<>> /\ uids = 0 /\ reads = <<>>
  /\ query = <<>> /\ statusFilter = "Tutti" /\ platformFilter = "Tutte"
  /\ onlyScheduled = FALSE
  /\ view = "board" /\ selectedDate = Undefined /\ cursor = Undefined
  /\ arg = <<>> /\ ret = Undefined

\* The date codec on its own: dateKeyFromLocalString of a datetime-local value.
InitCodec ==
  /\ items = <<>> /\ uids = 0 /\ reads = <<>>
  /\ query = <<>> /\ statusFilter = "Tutti" /\ platformFilter = "Tutte"
  /\ onlyScheduled = FALSE
  /\ view = "board" /\ selectedDate = Undefined /\ cursor = Undefined
  /\ tz \in TimeZones
  /\ arg \in CodecStrings /\ ret = Undefined
NextCodec == DevDateKey
SpecCodec == InitCodec /\ [][NextCodec]_vars

\* The post collection and the calendar's aggregation of it.
InitAggregate == InitApp /\ tz \in {ZoneRome, ZoneHonolulu}
NextAggregate ==
  \/ \E files \in UploadBatches : AddFromFiles(files)
  \/ \E i \in 1..MaxReads : ResolveUpload(i)
  \/ \E id \in 1..MaxUid, s \in ButtonStatuses : SetStatus(id, s)
  \/ \E id \in 1..MaxUid, str \in ScheduleInputs : SetSchedule(id, str)
  \/ \E id \in 1..MaxUid, p \in EditedPlatforms, v \in BOOLEAN : SetEnabled(id, p, v)
  \/ \E id \in 1..MaxUid : removeItem(id)
  \/ ShowBoard
  \/ ShowCalendar
SpecAggregate == InitAggregate /\ [][NextAggregate]_vars


\* The filters of the two views over a collection loaded from localStorage.
\* A stored post that is off on Instagram still has its Instagram caption.
StoredPost(id, name, s, sch, ig, fb) ==
  [NewPost(id, Some(DataUrl(<<"1">>)), name) EXCEPT
     !.status = s, !.scheduledAt = sch,
     !.platforms["Instagram"].enabled = ig,
     !.platforms["Instagram"].caption = IF ig THEN <<>> ELSE <<"k">>,
     !.platforms["Facebook"].enabled = fb]
StoredPosts ==
  {StoredPost(1, <<"a">>, "Bozza", Undefined, TRUE, TRUE),
   StoredPost(2, <<"a">>, "Approvato", Some(LocalString(2025, 10, 29, 9, 0)), TRUE, TRUE),
   StoredPost(3, <<"A", "b">>, "Da correggere", Some(LocalString(2025, 10, 29, 18, 0)), FALSE, TRUE),
   StoredPost(4, <<"B">>, "In revisione", Some(LocalString(2025, 10, 30, 0, 30)), TRUE, TRUE),
   StoredPost(5, <<"a">>, "Approvato", Some(<<>>), TRUE, FALSE)}
StoredCollections ==
  {<<>>} \cup {<<a>> : a \in StoredPosts}
         \cup {<<ab[1], ab[2]>> : ab \in {x \in StoredPosts \X StoredPosts : x[1] # x[2]}}

InitFilter ==
  /\ items \in StoredCollections /\ uids = Cardinality(StoredPosts) /\ reads = <<>>
  /\ query = <<>> /\ statusFilter = "Tutti" /\ platformFilter = "Tutte"
  /\ onlyScheduled = FALSE
  /\ view = "board" /\ selectedDate = Undefined /\ cursor = Undefined
  /\ tz = ZoneRome
  /\ arg = <<>> /\ ret = Undefined
NextFilter ==
  \/ \E q \in Queries : SetQuery(q)
  \/ \E s \in {"Tutti"} \cup Status : SetStatusFilter(s)
  \/ \E p \in {"Tutte"} \cup Platform : SetPlatformFilter(p)
  \/ \E v \in BOOLEAN : SetOnlyScheduled(v)
  \/ ShowBoard
  \/ ShowCalendar
  \/ \E cell \in PickCells : PickDate(cell)
  \/ ClearSelectedDate
SpecFilter == InitFilter /\ [][NextFilter]_vars

\* The cards of the board: edits, deletions, uploads and image replacements,
\* with the file reads resolving at any later moment.
InitEdits == InitApp /\ tz = ZoneRome
NextEdits ==
  \/ \E files \in UploadBatches : AddFromFiles(files)
  \/ \E i \in 1..MaxReads : ResolveUpload(i)
  \/ \E id \in 1..MaxUid, f \in ReplacementFiles : ReplaceImage(id, f)
  \/ \E i \in 1..MaxReads : ResolveReplace(i)
  \/ \E id \in 1..MaxUid : SetStatus(id, "Approvato")
  \/ \E id \in 1..MaxUid : SetSchedule(id, LocalString(2025, 10, 29, 9, 0))
  \/ \E id \in 1..MaxUid, p \in {"Instagram"}, v \in BOOLEAN : SetEnabled(id, p, v)
  \/ \E id \in 1..MaxUid, tag \in PresetTags : ToggleTag(id, tag)
  \/ \E id \in 1..MaxUid : removeItem(id)
SpecEdits == InitEdits /\ [][NextEdits]_vars

\* A whole session: uploads, edits, deletions, filters, both views, the day
\* selection and the month navigation.
InitSelection == InitApp /\ tz = ZoneRome
NextSelection ==
  \/ AddFromFiles(<<PickedFile>>)
  \/ \E i \in 1..MaxReads : ResolveUpload(i)
  \/ \E id \in 1..MaxUid : SetSchedule(id, LocalString(2025, 10, 29, 9, 0))
  \/ \E id \in 1..MaxUid : removeItem(id)
  \/ \E q \in {<<>>, <<"a">>} : SetQuery(q)
  \/ \E s \in {"Tutti", "Bozza"} : SetStatusFilter(s)
  \/ ShowBoard
  \/ ShowCalendar
  \/ PickDate(31)
  \/ ClearSelectedDate
  \/ PrevMonth
  \/ NextMonth
  \/ Today
SpecSelection == InitSelection /\ [][NextSelection]_vars

\* Collections imported from JSON files, seen through both views.
InitImport == InitApp /\ tz = ZoneRome
NextImport ==
  \/ \E data \in ImportedData : importJSON(data)
  \/ \E v \in BOOLEAN : SetOnlyScheduled(v)
  \/ ShowBoard
  \/ ShowCalendar
  \/ \E cell \in PickCells : PickDate(cell)
  \/ ClearSelectedDate
SpecImport == InitImport /\ [][NextImport]_vars

\* The calendar on its own: the month cursor, the grid and startOfWeek.
ProbeDates ==
  {DateOf(UtcMinutes(2025, 10, 29, 12, 0)), DateOf(UtcMinutes(2025, 10, 27, 0, 0)),
   DateOf(UtcMinutes(2025, 11, 2, 23, 59)), DateOf(UtcMinutes(2025, 9, 7, 4, 30)),
   DateOf(UtcMinutes(2025, 3, 30, 1, 0)), DateOf(UtcMinutes(2024, 2, 29, 10, 0)),
   DateOf(UtcMinutes(2026, 1, 1, 0, 0)), DateOf(UtcMinutes(2025, 10, 25, 9, 0))}
InitCalendar ==
  /\ items = <<>> /\ uids = 0 /\ reads = <<>>
  /\ query = <<>> /\ statusFilter = "Tutti" /\ platformFilter = "Tutte"
  /\ onlyScheduled = FALSE
  /\ tz \in TimeZones
  /\ view = "calendar" /\ selectedDate = Undefined
  /\ \E now \in NowInstants : cursor = Some(FirstOfMonth(DateOf(now)))
  /\ arg \in ProbeDates /\ ret = Undefined
NextCalendar ==
  \/ PrevMonth
  \/ NextMonth
  \/ Today
  \/ DevStartOfWeek
SpecCalendar == InitCalendar /\ [][NextCalendar]_vars

\* ------------------------------------------------------------ claims
\* C1: for every datetime-local value s, whatever the time of day and the
\* host's time zone, dateKeyFromLocalString(s) is the YYYY-MM-DD prefix of s.
C1_KeyIsDatePrefix ==
  IsSome(ret) => Get(ret) = SubSeq(arg, 1, 10)

\* C1, years of four significant digits only: there the key is the prefix.
C1_KeyIsDatePrefixFromYear1000 ==
  (IsSome(ret) /\ parseInt(SubSeq(arg, 1, 4)).n >= 1000) => Get(ret) = SubSeq(arg, 1, 10)


\* The text YYYY-MM-DD of a day.
KeyText(y, m, d) ==
  padStart(NatStr(y), 4) \o <<"-">> \o padStart(NatStr(m), 2) \o <<"-">> \o padStart(NatStr(d), 2)
HasSchedule(it) == it.scheduledAt # Undefined /\ it.scheduledAt # Some(<<>>)
\* The derived day key of each post of a sequence (<<>> for a post without schedule).
DayKeys(its) ==
  [i \in 1..Len(its) |->
     IF HasSchedule(its[i]) THEN dateKeyFromLocalString(Get(its[i].scheduledAt)) ELSE <<>>]
\* The posts scheduled on day d, given the day keys of the sequence.
ScheduledOn(keys, d) == {i \in 1..Len(keys) : keys[i] = d}
MaxOf(S) == IF S = {} THEN 0 ELSE CHOOSE m \in S : \A x \in S : x <= m
\* The day keys looked at besides those of the buckets: the input days and the day before.
InputKeys == {KeyText(2025, 10, 28), KeyText(2025, 10, 29), KeyText(2025, 10, 30)}

\* C2: for every day key d and platform p, the severity the bucket of d holds
\* for p (0 when absent) is the maximum of statusToSeverity over the input
\* posts scheduled on d that have p enabled, 0 when there is none.
C2_SeverityIsMax ==
  \A its \in {calendarItems} : \A map \in {PostsByDay(its)} : \A keys \in {DayKeys(its)} :
    \A d \in DOMAIN map \cup InputKeys : \A p \in Platform :
      CellSeverity(map, d, p)
        = MaxOf({statusToSeverity(its[i].status) :
                   i \in {j \in ScheduledOn(keys, d) : its[j].platforms[p].enabled}})

\* C2 witness: the calendar shows a day with an urgent post before an approved
\* one, both on Instagram, the urgent one not on Facebook: Instagram reads 3.
C2_Witness ==
  /\ view = "calendar"
  /\ Len(calendarItems) >= 2
  /\ LET d == KeyText(2025, 10, 29)
     IN /\ ScheduledOn(DayKeys(calendarItems), d) = {1, 2}
        /\ calendarItems[1].status = "Da correggere" /\ calendarItems[2].status = "Approvato"
        /\ calendarItems[1].platforms["Instagram"].enabled
        /\ calendarItems[2].platforms["Instagram"].enabled
        /\ ~calendarItems[1].platforms["Facebook"].enabled
        /\ CellSeverity(postsByDay, d, "Instagram") = 3
        /\ CellSeverity(postsByDay, d, "Facebook") = 1

\* C3: a post without a schedule creates and changes no bucket: the mapping of
\* the input is the mapping of the input without its unscheduled posts.
C3_UnscheduledLeaveNoTrace ==
  postsByDay = PostsByDay(SelectSeq(calendarItems, HasSchedule))

\* C3 witness: the calendar aggregates an unscheduled post, one whose schedule
\* was cleared and a scheduled one.
C3_Witness ==
  /\ view = "calendar"
  /\ \E i, j \in 1..Len(calendarItems) :
       /\ ~HasSchedule(calendarItems[i])
       /\ HasSchedule(calendarItems[j])
  /\ DOMAIN postsByDay # {}

\* C4: a bucket exists for a day key exactly when an input post is scheduled on
\* that day, and its count is the number of input posts scheduled on it.
C4_BucketIffScheduled ==
  \A its \in {calendarItems} : \A map \in {PostsByDay(its)} : \A keys \in {DayKeys(its)} :
    \A d \in DOMAIN map \cup InputKeys :
      /\ d \in DOMAIN map <=> ScheduledOn(keys, d) # {}
      /\ CellCount(map, d) = Cardinality(ScheduledOn(keys, d))
      /\ d \in DOMAIN map => Len(map[d].items) >= 1

\* C4 witness: posts at 09:00 and 18:00 of 2025-10-29 give one bucket of count 2.
C4_Witness ==
  /\ view = "calendar"
  /\ Len(calendarItems) = 2
  /\ {calendarItems[i].scheduledAt : i \in 1..2}
       = {Some(LocalString(2025, 10, 29, 9, 0)), Some(LocalString(2025, 10, 29, 18, 0))}
  /\ DOMAIN postsByDay = {KeyText(2025, 10, 29)}
  /\ CellCount(postsByDay, KeyText(2025, 10, 29)) = 2

\* The four header filters at rest.
FiltersNeutral ==
  statusFilter = "Tutti" /\ platformFilter = "Tutte" /\ ~onlyScheduled /\ query = <<>>

\* C5: with no day selected, the board's visible posts are the calendar's input
\* posts, whatever the collection, the status and platform filters, the
\* scheduled-only switch and the query.
C5_BoardEqualsCalendar ==
  selectedDate = Undefined => filtered = calendarItems

\* C5, queries without white space around them only: there the two sets agree.
C5_BoardEqualsCalendarTrimmedQuery ==
  (selectedDate = Undefined /\ trim(query) = query) => filtered = calendarItems

\* C6: with a day selected, every visible post of the board has a schedule
\* whose derived day key is the selected day; with no day selected and the
\* other filters at rest nothing is excluded.
C6_SelectedDayOnly ==
  /\ IsSome(selectedDate) =>
       \A i \in 1..Len(filtered) :
         /\ HasSchedule(filtered[i])
         /\ dateKeyFromLocalString(Get(filtered[i].scheduledAt)) = Get(selectedDate)
  /\ (selectedDate = Undefined /\ FiltersNeutral) => filtered = items

\* C6 witness: 2025-10-29 is selected, the collection holds a post of that day
\* and one of 2025-10-30, and the board shows the first only.
C6_Witness ==
  /\ view = "board"
  /\ selectedDate = Some(KeyText(2025, 10, 29))
  /\ FiltersNeutral
  /\ Len(items) = 2 /\ Len(filtered) = 1
  /\ \E i \in 1..2 : items[i].scheduledAt = Some(LocalString(2025, 10, 30, 0, 30))
  /\ filtered[1].scheduledAt = Some(LocalString(2025, 10, 29, 9, 0))

\* C7: with the scheduled-only switch on, both views drop every post without a
\* schedule, keep every post with one when the other filters are at rest, and
\* filtering the result again changes nothing.
C7_ScheduledOnly ==
  onlyScheduled =>
    /\ \A i \in 1..Len(filtered) : HasSchedule(filtered[i])
    /\ \A i \in 1..Len(calendarItems) : HasSchedule(calendarItems[i])
    /\ SelectSeq(filtered, BoardPass) = filtered
    /\ SelectSeq(calendarItems, CalendarPass) = calendarItems
    /\ (statusFilter = "Tutti" /\ platformFilter = "Tutte" /\ query = <<>>) =>
         /\ calendarItems = SelectSeq(items, HasSchedule)
         /\ selectedDate = Undefined => filtered = SelectSeq(items, HasSchedule)

\* C7 witness: the switch is on over a scheduled post and one whose schedule
\* was cleared; one post is left.
C7_Witness ==
  /\ onlyScheduled /\ selectedDate = Undefined
  /\ statusFilter = "Tutti" /\ platformFilter = "Tutte" /\ query = <<>>
  /\ Len(items) = 2 /\ Len(filtered) = 1 /\ Len(calendarItems) = 1
  /\ \E i \in 1..2 : items[i].scheduledAt = Some(<<>>)

\* C8: statusToSeverity is defined on every status with a value in 0..3:
\* Bozza 0, Approvato 1, In revisione 2, Da correggere 3, increasing with urgency.
C8_SeverityTable ==
  /\ \A s \in Status : statusToSeverity(s) \in 0..3
  /\ statusToSeverity("Bozza") < statusToSeverity("Approvato")
  /\ statusToSeverity("Approvato") < statusToSeverity("In revisione")
  /\ statusToSeverity("In revisione") < statusToSeverity("Da correggere")
  /\ \A i \in 1..Len(items) :
       statusToSeverity(items[i].status)
         = CASE items[i].status = "Bozza" -> 0
             [] items[i].status = "Approvato" -> 1
             [] items[i].status = "In revisione" -> 2
             [] items[i].status = "Da correggere" -> 3

\* C8 witness: the calendar shows a day with a draft and a post in review; the
\* draft counts 0 and the day reads 2.
C8_Witness ==
  /\ view = "calendar"
  /\ Len(items) = 2
  /\ {items[i].status : i \in 1..2} = {"Bozza", "In revisione"}
  /\ CellSeverity(postsByDay, KeyText(2025, 10, 29), "X") = 2
  /\ CellCount(postsByDay, KeyText(2025, 10, 29)) = 2

\* C9: the grid of every month cursor is 42 consecutive calendar days in 6 rows
\* of 7, starting on the Monday on or before the first of the cursor's month;
\* startOfWeek of a date is a Monday 0 to 6 days before it.
C9_GridShape ==
  /\ IsSome(cursor) =>
       \A cur \in {Get(cursor)} : \A rows \in {Weeks(cur)} : \A days \in {flat(rows)} :
         /\ Len(rows) = 6 /\ \A r \in 1..Len(rows) : Len(rows[r]) = 7
         /\ Len(days) = 42
         /\ \A i \in 1..(Len(days) - 1) : days[i].valid /\ LocalDay(days[i + 1]) = LocalDay(days[i]) + 1
         /\ getDay(days[1]) = Num(1)
         /\ DaysFromCivil(getFullYear(cur).n, getMonth(cur).n + 1, 1) - LocalDay(days[1]) \in 0..6
  /\ IsSome(ret) =>
       /\ getDay(Get(ret)) = Num(1)
       /\ LocalDay(arg) - LocalDay(Get(ret)) \in 0..6

\* C9 witness: startOfWeek was applied to a Wednesday and the month shown does
\* not start on a Monday.
C9_Witness ==
  /\ IsSome(ret) /\ getDay(arg) = Num(3)
  /\ LocalDay(arg) - LocalDay(Get(ret)) = 2
  /\ IsSome(cursor) /\ getDay(Get(cursor)) # Num(1)

NoValidDate(it) ==
  it.scheduledAt # Undefined /\ ~parseLocalDateTime(Get(it.scheduledAt)).valid
\* The posts of all buckets of a mapping.
Bucketed(map) == UNION {{map[d].items[i] : i \in 1..Len(map[d].items)} : d \in DOMAIN map}
Elems(its) == {its[i] : i \in 1..Len(its)}

\* C11: a post whose schedule text is empty or is no valid date is in no
\* bucket, is dropped by the scheduled-only filter of both views, and is never
\* shown for a selected day.
C11_InvalidScheduleIsUnscheduled ==
  \A i \in 1..Len(items) :
    NoValidDate(items[i]) =>
      /\ onlyScheduled => items[i] \notin Elems(filtered) \cup Elems(calendarItems)
      /\ IsSome(selectedDate) => items[i] \notin Elems(filtered)
      /\ (view = "calendar" /\ ~PostsByDayThrows(calendarItems)) =>
           items[i] \notin Bucketed(postsByDay)

\* C11, the part that holds: parsing gives the invalid date, an empty schedule
\* is unscheduled everywhere, and no selected day shows a post without valid date.
C11_EmptyScheduleAndSelectedDay ==
  \A i \in 1..Len(items) :
    NoValidDate(items[i]) =>
      /\ parseLocalDateTime(Get(items[i].scheduledAt)) = InvalidDate
      /\ IsSome(selectedDate) => items[i] \notin Elems(filtered)
      /\ Get(items[i].scheduledAt) = <<>> =>
            /\ onlyScheduled => items[i] \notin Elems(filtered) \cup Elems(calendarItems)
            /\ ~PostsByDayThrows(calendarItems) => items[i] \notin Bucketed(postsByDay)

\* C11 witness of the part that holds: a day is selected over a collection
\* with a post of that day and a post whose schedule is no date.
C11_Witness ==
  /\ view = "board" /\ selectedDate = Some(KeyText(2025, 10, 29))
  /\ Len(items) = 2 /\ Len(filtered) = 1
  /\ \E i \in 1..2 : items[i].scheduledAt = Some(<<"x">>)

\* C12: a status outside the enumeration counts 0, and the aggregation of the
\* calendar's input completes whatever platform entries its records have or lack.
C12_AggregationNeverAborts ==
  /\ \A i \in 1..Len(items) :
       items[i].status \notin Status => statusToSeverity(items[i].status) = 0
  /\ view = "calendar" => ~PostsByDayThrows(calendarItems)

\* C12, the part that holds: a status outside the enumeration counts 0, and
\* records with all five entries, known status or not, extra entries or not,
\* are aggregated with the others.
C12_UnknownStatusCountsZero ==
  /\ \A i \in 1..Len(items) :
       items[i].status \notin Status => statusToSeverity(items[i].status) = 0
  /\ (view = "calendar" /\ \A i \in 1..Len(items) : ~PostCardThrows(items[i])) =>
       /\ ~PostsByDayThrows(calendarItems)
       /\ \A i \in 1..Len(calendarItems) :
            ~Unscheduled(calendarItems[i]) => calendarItems[i] \in Bucketed(postsByDay)

\* C12 witness of the part that holds: the calendar shows a day with an
\* approved post and a post of unknown status; the day reads 1 for two posts.
C12_Witness ==
  /\ view = "calendar" /\ Len(items) = 2
  /\ {items[i].status : i \in 1..2} = {"Approvato", "Archiviato"}
  /\ CellCount(postsByDay, KeyText(2025, 10, 29)) = 2
  /\ CellSeverity(postsByDay, KeyText(2025, 10, 29), "X") = 1

\* The day number of the first cell of the month grid of a cursor: the Monday
\* on or before the first of its month (day 0, 1970-01-01, is a Thursday).
GridStartDay(cur) ==
  LET first == DaysFromCivil(getFullYear(cur).n, getMonth(cur).n + 1, 1)
  IN first - ((first + 3) % 7)
\* The day key of the cell-th cell of that grid.
CellKey(cur, cell) ==
  LET c == CivilFromDays(GridStartDay(cur) + cell - 1)
  IN KeyText(c.y, c.m, c.d)

\* C13: the selected day changes only in two ways: the remove-date-filter
\* action clears it, and picking a cell of the calendar sets it to the day key
\* of that cell and shows the board; every other step leaves it as it is.
C13_SelectedDayPersists ==
  [][selectedDate' # selectedDate =>
       \/ /\ ClearSelectedDate
          /\ IsSome(selectedDate) /\ selectedDate' = Undefined
       \/ /\ view = "calendar" /\ view' = "board"
          /\ \E cell \in 1..GridCells :
               selectedDate' = Some(CellKey(Get(cursor), cell)) /\ PickDate(cell)]_vars

\* C13 witness: 2025-10-29 is still selected after a post was put on that day,
\* a search and a status filter were set, and the calendar was opened again and
\* moved to another month.
C13_Witness ==
  /\ selectedDate = Some(KeyText(2025, 10, 29))
  /\ view = "calendar" /\ MonthIndex(Get(cursor)) # 2025 * 12 + 9
  /\ query # <<>> /\ statusFilter # "Tutti"
  /\ Len(items) = 1 /\ items[1].id = 2 /\ HasSchedule(items[1])

\* The four header predicates of a post, without the day selection: status,
\* platform, scheduled-only and search.
HeaderFiltersPass(it) ==
  /\ statusFilter \in {"Tutti", it.status}
  /\ platformFilter = "Tutte" \/ it.platforms[platformFilter].enabled
  /\ onlyScheduled => HasSchedule(it)
  /\ query = <<>> \/ includes(Haystack(it), toLowerCase(query))

\* C14: whatever the selected day is, unset or any day, the calendar's input is
\* the collection filtered by the four header predicates alone, and its
\* buckets are those of that input: the posts of all days.
C14_CalendarIgnoresSelectedDay ==
  \A its \in {SelectSeq(items, HeaderFiltersPass)} :
    /\ calendarItems = its
    /\ postsByDay = PostsByDay(its)
    /\ \A i \in 1..Len(its) :
         HasSchedule(its[i]) =>
           CellCount(postsByDay, dateKeyFromLocalString(Get(its[i].scheduledAt))) >= 1

\* C14 witness: 2025-10-29 was picked and the calendar is open again; it still
\* shows a post on 2025-10-30, which the board hides.
C14_Witness ==
  /\ view = "calendar" /\ selectedDate = Some(KeyText(2025, 10, 29))
  /\ CellCount(postsByDay, KeyText(2025, 10, 30)) = 1
  /\ CellCount(postsByDay, KeyText(2025, 10, 29)) = 1
  /\ Len(calendarItems) = 2 /\ Len(filtered) = 1

\* Two posts agree on every field outside `fields`.
SameExcept(a, b, fields) ==
  DOMAIN a = DOMAIN b /\ \A f \in DOMAIN a \ fields : a[f] = b[f]
\* The step changed at most the given fields of the post `id`, and nothing else
\* of the collection: same length, same order, same ids.
PatchFrame(id, fields) ==
  /\ Len(items') = Len(items)
  /\ \A i \in 1..Len(items) :
       IF items[i].id = id
       THEN items'[i].id = id /\ SameExcept(items[i], items'[i], fields \ {"id"})
       ELSE items'[i] = items[i]
\* The step took the post `id` out and left the others in their order.
RemoveFrame(id) ==
  /\ id \notin IdsOf(items')
  /\ \E k \in 1..Len(items) :
       /\ items[k].id = id
       /\ items' = SubSeq(items, 1, k - 1) \o SubSeq(items, k + 1, Len(items))
PostOf(its, id) == its[CHOOSE i \in 1..Len(its) : its[i].id = id]

\* C15: updateItem(id, patch) sets the patched fields of the post id and leaves
\* its other fields, the other posts, their number and order alone; for an id
\* that is not in the collection it changes nothing; removeItem(id) takes
\* that post out and leaves the others in their order.
C15_PatchAndRemoveFrame ==
  [][/\ \A id \in 1..MaxUid :
          /\ SetStatus(id, "Approvato") =>
                PatchFrame(id, {"status"}) /\ PostOf(items', id).status = "Approvato"
          /\ SetSchedule(id, LocalString(2025, 10, 29, 9, 0)) =>
                /\ PatchFrame(id, {"scheduledAt"})
                /\ PostOf(items', id).scheduledAt = Some(LocalString(2025, 10, 29, 9, 0))
          /\ \A v \in BOOLEAN :
                SetEnabled(id, "Instagram", v) =>
                  /\ PatchFrame(id, {"platforms"})
                  /\ PostOf(items', id).platforms
                       = [PostOf(items, id).platforms EXCEPT !["Instagram"].enabled = v]
          /\ \A tag \in PresetTags :
                ToggleTag(id, tag) =>
                  /\ PatchFrame(id, {"tags"})
                  /\ (tag \in Elems(PostOf(items', id).tags)) <=> (tag \notin Elems(PostOf(items, id).tags))
          /\ removeItem(id) => RemoveFrame(id)
     /\ \A i \in 1..Len(reads) :
          (ResolveReplace(i) /\ reads[i].id \notin IdsOf(items)) => items' = items]_vars

\* C15 witness: of two uploaded posts the first was removed, and the second
\* carries a status, a schedule, a tag and a disabled platform set one by one.
C15_Witness ==
  /\ uids = 2 /\ Len(items) = 1 /\ items[1].id = 2
  /\ items[1].status = "Approvato" /\ HasSchedule(items[1])
  /\ items[1].tags = <<<<"s", "t", "o", "r", "y">>>>
  /\ ~items[1].platforms["Instagram"].enabled
  /\ items[1].imageName = FileName

\* C17: a file read resolves over the collection of that moment.  An image
\* replacement changes imageUrl and imageName of its post only, keeping every
\* other field as it is then, and changes nothing when the post is gone; an
\* upload puts its new drafts before the posts of that moment, unchanged.
C17_CompletionsUseCurrentCollection ==
  [][\A i \in 1..Len(reads) :
       /\ ResolveReplace(i) =>
            /\ PatchFrame(reads[i].id, {"imageUrl", "imageName"})
            /\ IdsOf(items') = IdsOf(items)
            /\ reads[i].id \notin IdsOf(items) => items' = items
            /\ reads[i].id \in IdsOf(items) =>
                 /\ PostOf(items', reads[i].id).imageName = reads[i].files[1].name
                 /\ PostOf(items', reads[i].id).imageUrl = Some(DataUrl(reads[i].files[1].data))
       /\ ResolveUpload(i) =>
            \A n \in {Len(reads[i].files)} :
              /\ Len(items') = n + Len(items)
              /\ SubSeq(items', n + 1, Len(items')) = items
              /\ \A k \in 1..n :
                   /\ items'[k].id \notin IdsOf(items)
                   /\ items'[k].status = "Bozza" /\ items'[k].scheduledAt = Undefined
                   /\ items'[k].imageName = reads[i].files[k].name
              /\ Cardinality(IdsOf(items')) = Len(items')]_vars

\* C17 witness: post 2 got its new image and kept the status and the schedule
\* set on it, and a replacement for post 1 is in flight after post 1 was removed.
C17_Witness ==
  /\ uids = 2 /\ Len(items) = 1 /\ items[1].id = 2
  /\ items[1].imageName = <<"z">> /\ items[1].imageUrl = Some(DataUrl(<<"2">>))
  /\ items[1].status = "Approvato" /\ HasSchedule(items[1])
  /\ Len(reads) = 1 /\ reads[1].then = "replace" /\ reads[1].id = 1

\* The text the search is specified over: image name, owner, notes, the five
\* captions, the tags and the status label, put together with blanks.
SearchedText(it) ==
  it.imageName \o <<" ">> \o it.owner \o <<" ">> \o it.notes \o <<" ">>
    \o it.platforms["Instagram"].caption \o <<" ">> \o it.platforms["Facebook"].caption \o <<" ">>
    \o it.platforms["X"].caption \o <<" ">> \o it.platforms["LinkedIn"].caption \o <<" ">>
    \o it.platforms["TikTok"].caption \o <<" ">>
    \o join(it.tags, <<" ">>) \o <<" ">> \o StatusText(it.status)
\* q, compared without regard to case, is a substring of that text, or is empty.
Matches(it, q) ==
  q = <<>> \/ includes(toLowerCase(SearchedText(it)), toLowerCase(q))
OtherFiltersAtRest == statusFilter = "Tutti" /\ platformFilter = "Tutte" /\ ~onlyScheduled

\* C16: with the other filters at rest, a post passes the search of the board
\* and of the calendar exactly when the query, without regard to case, is a
\* substring of its searched text; an empty query passes every post.
C16_SearchIsSubstringMatch ==
  OtherFiltersAtRest =>
    \A i \in 1..Len(items) :
      /\ (items[i] \in Elems(calendarItems)) <=> Matches(items[i], query)
      /\ selectedDate = Undefined =>
           ((items[i] \in Elems(filtered)) <=> Matches(items[i], query))

\* C16, with the board's query taken without the white space around it: there
\* both views pass exactly the posts whose searched text holds the query.
C16_SearchMatchesTrimmedOnBoard ==
  OtherFiltersAtRest =>
    \A i \in 1..Len(items) :
      /\ (items[i] \in Elems(calendarItems)) <=> Matches(items[i], query)
      /\ selectedDate = Undefined =>
           ((items[i] \in Elems(filtered)) <=> Matches(items[i], trim(query)))

\* C16 witness of the part that holds: the query "K" finds the post whose
\* only "k" is the caption of a platform that is off, and not the other post.
C16_Witness ==
  /\ query = <<"K">> /\ OtherFiltersAtRest /\ selectedDate = Undefined
  /\ Len(items) = 2 /\ Len(filtered) = 1 /\ Len(calendarItems) = 1
  /\ ~filtered[1].platforms["Instagram"].enabled
  /\ filtered[1].platforms["Instagram"].caption = <<"k">>

=============================================================================
